---- MODULE Spec2Model ----
(***************************************************************************)
(* Model of gpt_term/main.py: ChatGPT.handle and, inside it, the streaming *)
(* response processor ChatGPT.process_stream_response.                     *)
(*                                                                         *)
(* Text is modelled as a sequence of tokens (TLA+ strings); string         *)
(* concatenation is \o on such sequences and the empty string is << >>.    *)
(* The marker texts the code inserts are single tokens.  The token <fence> *)
(* stands for the three-backquote markdown fence of the source.            *)
(* A Python value that may be None is a sequence of length at most one:    *)
(* None is << >> and a value v is << v >>.  A JSON object is a record that *)
(* has exactly the keys that are present ("k" in obj is k \in DOMAIN obj). *)
(***************************************************************************)
EXTENDS Integers, Sequences, FiniteSets, TLC

VARIABLES
    pc,                   \* position of the main thread inside handle
    messages,             \* self.messages
    gen_title_messages,   \* self.gen_title_messages, the items not yet taken
    unfinished_tasks,     \* self.gen_title_messages.unfinished_tasks
    title,                \* self.title
    title_pc,             \* position of the title generation thread
    content_this_time,    \* auto_gen_title_background: content_this_time
    auto_gen_title_background_enable,
    model,                \* self.model
    raw_mode,             \* ChatMode.raw_mode
    reply,                \* process_stream_response: reply
    thinking_content,     \* process_stream_response: thinking_content
    is_thinking_mode,     \* process_stream_response: is_thinking_mode
    is_thinking_complete, \* process_stream_response: is_thinking_complete
    citations,            \* process_stream_response: citations
    final_chunk,          \* process_stream_response: final_chunk
    printed,              \* what rprint emitted in raw mode, in order
    live,                 \* the last snapshot handed to live.update
    reply_message,        \* what process_response returned to handle
    events,               \* history: the events taken from client.events()
    finish                \* history: how the for loop was left

vars == <<pc, messages, gen_title_messages, unfinished_tasks, title,
          title_pc, content_this_time,
          auto_gen_title_background_enable, model, raw_mode, reply,
          thinking_content, is_thinking_mode, is_thinking_complete,
          citations, final_chunk, printed, live, reply_message, events,
          finish>>

title_thread == <<gen_title_messages, unfinished_tasks, title, title_pc,
                  content_this_time>>

locals == <<reply, thinking_content, is_thinking_mode, is_thinking_complete,
            citations, final_chunk>>

-----------------------------------------------------------------------------
(* Bounds *)

\* the longest stream of events a response delivers
MaxEvents == 3

\* the longest stream of plain reasoning and content fragments
MaxLongEvents == 4

\* the longest conversation history of a session
MaxMessages == 5

\* the most title requests waiting in the queue
MaxQueue == 2

-----------------------------------------------------------------------------
(* Marker texts of the source *)

None == << >>

ThinkingHeader == <<"> Thought Process:\n<fence>thinking\n">>

ThinkingFooter == <<"\n<fence>\n\n">>

ResponseSeparator == <<"\n", "> AI Response:  \n\n">>

ThinkCloseReplacement == <<"\n<fence>\n\n", "> AI Response:  \n\n">>

CitationsHeader == <<"\n\n> Citations:  \n\n">>

MarkerTokens ==
    {ThinkingHeader[1], ThinkingFooter[1], ResponseSeparator[2]}

-----------------------------------------------------------------------------
(* Pure functions *)

RECURSIVE FormatCitationLines(_, _)
FormatCitationLines(cits, i) ==
    IF i > Len(cits) THEN << >>
    ELSE <<"[" \o ToString(i) \o "] ", cits[i], "  \n">>
             \o FormatCitationLines(cits, i + 1)

\* format_citations(citations); the argument is None or << list >>
format_citations(cits) ==
    IF cits = None \/ cits[1] = << >> THEN << >>
    ELSE CitationsHeader \o FormatCitationLines(cits[1], 1)

\* "sonar-reasoning-pro" in self.model or "deepseek-r1" in self.model
IsThinkTagModel(m) == m \in {"sonar-reasoning-pro", "deepseek-r1"}

RECURSIVE ReplaceThinkTags(_)
\* content.replace("<think>", ...).replace("</think>", ...)
ReplaceThinkTags(text) ==
    IF text = << >> THEN << >>
    ELSE LET t == Head(text)
             r == IF t = "<think>" THEN ThinkingHeader
                  ELSE IF t = "</think>" THEN ThinkCloseReplacement
                  ELSE <<t>>
         IN r \o ReplaceThinkTags(Tail(text))

RECURSIVE FirstThinkingBlock(_)
\* the for loop over delta["thinking_blocks"]: None or << text >>
FirstThinkingBlock(blocks) ==
    IF blocks = << >> THEN None
    ELSE LET block == Head(blocks)
         IN IF "type" \in DOMAIN block /\ block.type = "thinking"
               /\ "thinking" \in DOMAIN block
            THEN <<block.thinking>>
            ELSE FirstThinkingBlock(Tail(blocks))

\* the if / elif / elif chain that looks for reasoning text in a delta:
\* None or << text >>
ExtractReasoning(delta) ==
    IF "reasoning_content" \in DOMAIN delta /\ delta.reasoning_content # << >>
    THEN <<delta.reasoning_content>>
    ELSE IF "thinking_blocks" \in DOMAIN delta /\ delta.thinking_blocks # << >>
    THEN FirstThinkingBlock(delta.thinking_blocks)
    ELSE IF "provider_specific_fields" \in DOMAIN delta
            /\ "reasoningContent" \in DOMAIN delta.provider_specific_fields
    THEN IF "text" \in DOMAIN delta.provider_specific_fields.reasoningContent
         THEN <<delta.provider_specific_fields.reasoningContent.text>>
         ELSE None
    ELSE None

\* "choices" in part and len(part["choices"]) > 0 and "delta" in choices[0]
HasDelta(part) ==
    /\ "choices" \in DOMAIN part
    /\ Len(part.choices) > 0
    /\ "delta" \in DOMAIN part.choices[1]

\* the JSON value null, where an object is expected
Null == [null |-> TRUE]

\* lines 226-227: the in operator raises TypeError on None; the third branch
\* of the chain is reached when the first two conditions are false
ExtractRaises(delta) ==
    /\ ~("reasoning_content" \in DOMAIN delta
            /\ delta.reasoning_content # << >>)
    /\ ~("thinking_blocks" \in DOMAIN delta /\ delta.thinking_blocks # << >>)
    /\ "provider_specific_fields" \in DOMAIN delta
    /\ \/ delta.provider_specific_fields = Null
       \/ /\ "reasoningContent" \in DOMAIN delta.provider_specific_fields
          /\ delta.provider_specific_fields.reasoningContent = Null

-----------------------------------------------------------------------------
(* One iteration of "for event in client.events()", on the record L of the *)
(* function's locals and outputs                                           *)

\* lines 206-207 writing the formatted list into the reply as well
StoreCitations_IntoReply(L, part) ==
    IF "citations" \in DOMAIN part
    THEN [L EXCEPT !.citations = <<part.citations>>,
                   !.reply = @ \o format_citations(<<part.citations>>)]
    ELSE L

\* lines 206-207 extending the stored list
StoreCitations_Merging(L, part) ==
    IF "citations" \in DOMAIN part
    THEN [L EXCEPT !.citations =
                      IF @ = None THEN <<part.citations>>
                      ELSE <<@[1] \o part.citations>>]
    ELSE L

\* lines 206-207: a citations field replaces the stored list
StoreCitations(L, part) ==
    IF "citations" \in DOMAIN part
    THEN [L EXCEPT !.citations = <<part.citations>>]
    ELSE L

\* line 231 without the test of is_thinking_complete
AcceptsReasoning_AfterClose(L, rc) == rc # None /\ rc[1] # << >>

\* line 231: reasoning text is taken when there is some and the thinking
\* block is not closed
AcceptsReasoning(L, rc) ==
    rc # None /\ rc[1] # << >> /\ ~L.is_thinking_complete

\* lines 230-244 with the thinking buffer kept in refresh mode only
ApplyReasoning_BufferInRefreshOnly(L, delta, raw) ==
    LET rc == ExtractReasoning(delta)
    IN IF AcceptsReasoning(L, rc)
       THEN LET tc == (IF ~L.is_thinking_mode THEN ThinkingHeader
                       ELSE L.thinking_content) \o rc[1]
            IN IF raw
               THEN [L EXCEPT !.printed = Append(@, [text |-> rc[1],
                                                     style |-> "yellow"])]
               ELSE [L EXCEPT !.is_thinking_mode = TRUE,
                              !.thinking_content = tc,
                              !.live = <<tc>>]
       ELSE L

\* lines 230-244: a reasoning fragment, accepted only before the close
ApplyReasoning(L, delta, raw) ==
    LET rc == ExtractReasoning(delta)
    IN IF AcceptsReasoning(L, rc)
       THEN LET tc == (IF ~L.is_thinking_mode THEN ThinkingHeader
                       ELSE L.thinking_content) \o rc[1]
            IN [L EXCEPT !.is_thinking_mode = TRUE,
                         !.thinking_content = tc,
                         !.printed = IF raw
                                     THEN Append(@, [text |-> rc[1],
                                                     style |-> "yellow"])
                                     ELSE @,
                         !.live = IF raw THEN @ ELSE <<tc>>]
       ELSE L

\* lines 269-276 with reply += in place of reply_full = reply +
SnapshotStep_IntoReply(L) ==
    LET reply_full == IF L.citations # None /\ L.citations[1] # << >>
                      THEN L.reply \o format_citations(L.citations)
                      ELSE L.reply
    IN [L EXCEPT !.reply = reply_full, !.live = <<reply_full>>]

\* lines 269-276: the snapshot of refresh mode, reply plus citation block
SnapshotStep(L) ==
    LET reply_full == IF L.citations # None /\ L.citations[1] # << >>
                      THEN L.reply \o format_citations(L.citations)
                      ELSE L.reply
    IN [L EXCEPT !.live = <<reply_full>>]

\* line 260 without the test of is_thinking_mode
Closing_WithoutThinking(L) == ~L.is_thinking_complete

\* line 260 testing the buffer in place of the two flags
Closing_OnBuffer(L) == L.thinking_content # << >>

\* line 260: the first content after reasoning closes the thinking block
Closing(L) == L.is_thinking_mode /\ ~L.is_thinking_complete

\* line 264: the closed thinking block and the separator go into reply
ClosedReply(rp, tc) == rp \o tc \o ResponseSeparator

\* lines 253-256: the think tags are rewritten for the models that inline
\* their reasoning
RewriteContent(text, m) ==
    IF IsThinkTagModel(m) THEN ReplaceThinkTags(text) ELSE text

\* lines 246-276: a content fragment; the first one after reasoning closes
\* the thinking block and copies it into reply
ApplyContent(L, delta, raw, m) ==
    IF "content" \in DOMAIN delta /\ delta.content # << >>
    THEN LET content == RewriteContent(delta.content, m)
             closing == Closing(L)
             tc == IF closing THEN L.thinking_content \o ThinkingFooter
                   ELSE L.thinking_content
             L1 == [L EXCEPT
                      !.is_thinking_mode = IF closing THEN FALSE ELSE @,
                      !.is_thinking_complete = IF closing THEN TRUE ELSE @,
                      !.thinking_content = tc,
                      !.reply = (IF closing THEN ClosedReply(@, tc) ELSE @)
                                    \o content]
         IN IF raw
            THEN [L1 EXCEPT !.printed = Append(@, [text |-> content,
                                                   style |-> "plain"])]
            ELSE SnapshotStep(L1)
    ELSE L

\* lines 210-228 reading part["choices"][0]["delta"] without the test of
\* line 210
BodyRaises_WithoutChoicesTest(part) ==
    IF HasDelta(part) THEN ExtractRaises(part.choices[1].delta) ELSE TRUE

\* lines 210-228: the loop body raises on this JSON object
BodyRaises(part) ==
    HasDelta(part) /\ ExtractRaises(part.choices[1].delta)

\* lines 206-278 with the content block (247-276) before the reasoning
\* block (230-244)
LoopBody_ContentFirst(L, part, raw, m) ==
    LET L1 == StoreCitations(L, part)
        L2 == IF HasDelta(part)
              THEN LET delta == part.choices[1].delta
                   IN ApplyReasoning(ApplyContent(L1, delta, raw, m),
                                     delta, raw)
              ELSE L1
    IN [L2 EXCEPT !.final_chunk = <<part>>]

\* lines 206-278: the loop body after json.loads succeeded, for an object
\* on which it does not raise
LoopBody(L, part, raw, m) ==
    LET L1 == StoreCitations(L, part)
        L2 == IF HasDelta(part)
              THEN LET delta == part.choices[1].delta
                   IN ApplyContent(ApplyReasoning(L1, delta, raw),
                                   delta, raw, m)
              ELSE L1
    IN [L2 EXCEPT !.final_chunk = <<part>>]

\* lines 187-193: the locals at entry
InitialLocals ==
    [reply |-> << >>, thinking_content |-> << >>,
     is_thinking_mode |-> FALSE, is_thinking_complete |-> FALSE,
     citations |-> None, final_chunk |-> None,
     printed |-> << >>, live |-> None]

\* lines 286-289: the message the finally block returns
ReplyMessage(L) == [role |-> "assistant", content |-> L.reply]

RECURSIVE RunLoop(_, _, _, _)
\* lines 198-285 as a fold: the events are applied in order until the
\* sentinel, a payload that json.loads rejects or an object on which the
\* body raises
RunLoop(L, evs, raw, m) ==
    IF evs = << >> THEN L
    ELSE IF Head(evs).kind # "json" THEN L
    ELSE IF BodyRaises(Head(evs).part)
    THEN StoreCitations(L, Head(evs).part)
    ELSE RunLoop(LoopBody(L, Head(evs).part, raw, m), Tail(evs), raw, m)

\* lines 186-289: the message returned for a stream of events
process_stream_response(evs, raw, m) ==
    ReplyMessage(RunLoop(InitialLocals, evs, raw, m))

-----------------------------------------------------------------------------
(* The events a response stream can deliver *)

DoneEvent == [kind |-> "sentinel"]

MalformedEvent == [kind |-> "malformed"]

JsonEvent(part) == [kind |-> "json", part |-> part]

ReasoningEvent(text) ==
    JsonEvent([choices |-> <<[delta |-> [reasoning_content |-> text]]>>])

ContentEvent(text) ==
    JsonEvent([choices |-> <<[delta |-> [content |-> text]]>>])

CitationsEvent(cits) == JsonEvent([citations |-> cits])

CitedContentEvent(cits, text) ==
    JsonEvent([citations |-> cits,
               choices |-> <<[delta |-> [content |-> text]]>>])

DeltaEvent(delta) == JsonEvent([choices |-> <<[delta |-> delta]>>])

InlineThinking == <<"<think>", "R1", "</think>", "A">>

GenericEvents ==
    {DoneEvent, MalformedEvent,
     ReasoningEvent(<<"R1">>), ReasoningEvent(<<"R2">>),
     ContentEvent(<<"A">>), ContentEvent(<<"B">>),
     ContentEvent(InlineThinking),
     CitationsEvent(<<"u1">>), CitationsEvent(<< >>),
     CitedContentEvent(<<"u2", "u3">>, <<"A">>)}

HelloEvents ==
    {ContentEvent(<<"Hello">>), ContentEvent(<<" world">>), DoneEvent}

PartialEvents ==
    {ReasoningEvent(<<"R1">>), ContentEvent(<<"partial content">>)}

\* the three places of reasoning text in a delta, alone and together
PathEvents ==
    {ReasoningEvent(<<"R1">>), ContentEvent(<<"A">>),
     DeltaEvent([thinking_blocks |->
                     <<[type |-> "thinking", thinking |-> <<"R2">>]>>]),
     DeltaEvent([provider_specific_fields |->
                     [reasoningContent |-> [text |-> <<"R3">>]]]),
     DeltaEvent([reasoning_content |-> <<"R1">>,
                 thinking_blocks |->
                     <<[type |-> "thinking", thinking |-> <<"R2">>]>>,
                 provider_specific_fields |->
                     [reasoningContent |-> [text |-> <<"R3">>]]]),
     DeltaEvent([thinking_blocks |-> <<[type |-> "redacted_thinking"]>>,
                 provider_specific_fields |->
                     [reasoningContent |-> [text |-> <<"R3">>]]]),
     DeltaEvent([reasoning_content |-> <<"R2">>, content |-> <<"B">>])}

\* JSON objects without the expected fields
ShapeEvents ==
    {ReasoningEvent(<<"R1">>), ContentEvent(<<"A">>),
     JsonEvent([id |-> "chunk"]),
     JsonEvent([choices |-> << >>]),
     JsonEvent([choices |-> <<[finish_reason |-> "stop"]>>]),
     DeltaEvent([role |-> "assistant"]),
     DeltaEvent([thinking_blocks |-> <<[type |-> "thinking"]>>]),
     DeltaEvent([provider_specific_fields |->
                     [reasoningContent |-> [signature |-> "s"]]]),
     DeltaEvent([provider_specific_fields |-> Null])}

\* plain reasoning and content fragments and the sentinel
LongEvents ==
    {ReasoningEvent(<<"R1">>), ReasoningEvent(<<"R2">>),
     ContentEvent(<<"A">>), ContentEvent(<<"B">>), DoneEvent}

Vocabularies ==
    {GenericEvents, HelloEvents, PartialEvents, PathEvents, ShapeEvents,
     LongEvents}

\* one response stays within one vocabulary; only a stream of LongEvents
\* goes on after MaxEvents events
Offered(history) ==
    {ev \in UNION Vocabularies :
        \E V \in Vocabularies :
            /\ ev \in V
            /\ Len(history) >= MaxEvents => V = LongEvents
            /\ \A i \in 1..Len(history) : history[i] \in V}

Models == {"gpt-3.5-turbo", "deepseek-r1"}

UserMessage == [role |-> "user", content |-> <<"question">>]

SystemMessage == [role |-> "system", content |-> <<"system prompt">>]

-----------------------------------------------------------------------------
(* State and actions *)

Locals ==
    [reply |-> reply, thinking_content |-> thinking_content,
     is_thinking_mode |-> is_thinking_mode,
     is_thinking_complete |-> is_thinking_complete,
     citations |-> citations, final_chunk |-> final_chunk,
     printed |-> printed, live |-> live]

SetLocals(L) ==
    /\ reply' = L.reply
    /\ thinking_content' = L.thinking_content
    /\ is_thinking_mode' = L.is_thinking_mode
    /\ is_thinking_complete' = L.is_thinking_complete
    /\ citations' = L.citations
    /\ final_chunk' = L.final_chunk
    /\ printed' = L.printed
    /\ live' = L.live

config == <<model, raw_mode, auto_gen_title_background_enable>>

Init ==
    /\ pc = "idle"
    /\ messages = <<SystemMessage>>
    /\ gen_title_messages = << >>
    /\ unfinished_tasks = 0
    /\ title = None
    /\ title_pc = "waiting"
    /\ content_this_time = None
    /\ auto_gen_title_background_enable \in BOOLEAN
    /\ model \in Models
    /\ raw_mode \in BOOLEAN
    /\ reply = << >>
    /\ thinking_content = << >>
    /\ is_thinking_mode = FALSE
    /\ is_thinking_complete = FALSE
    /\ citations = None
    /\ final_chunk = None
    /\ printed = << >>
    /\ live = None
    /\ reply_message = None
    /\ events = << >>
    /\ finish = "none"

\* handle, line 355: the user message is appended and the request is sent
HandleStart ==
    /\ pc = "idle"
    /\ pc' = "requesting"
    /\ messages' = Append(messages, UserMessage)
    /\ UNCHANGED <<title_thread, config, locals, printed, live,
                   reply_message, events, finish>>

\* handle, lines 372-377: send_request returned None
SendRequestFailed ==
    /\ pc = "requesting"
    /\ pc' = "done"
    /\ messages' = SubSeq(messages, 1, Len(messages) - 1)
    /\ finish' = "no_response"
    /\ UNCHANGED <<title_thread, config, locals, printed, live,
                   reply_message, events>>

\* send_request, lines 154-156: KeyboardInterrupt is re-raised, handle does
\* not catch it and main continues with the next prompt
SendRequestInterrupted ==
    /\ pc = "requesting"
    /\ pc' = "done"
    /\ finish' = "request_interrupted"
    /\ UNCHANGED <<messages, title_thread, config, locals, printed,
                   live, reply_message, events>>

\* handle, line 379, and process_stream_response, lines 187-197
SendRequestOk ==
    /\ pc = "requesting"
    /\ pc' = "streaming"
    /\ SetLocals(InitialLocals)
    /\ UNCHANGED <<messages, title_thread, config, reply_message,
                   events, finish>>

\* lines 279-289: the loop is left, the finally block returns the message
Return(how) ==
    /\ pc' = "returned"
    /\ finish' = how
    /\ reply_message' = <<ReplyMessage(Locals)>>
    /\ UNCHANGED <<messages, title_thread, config, locals, printed,
                   live>>

\* lines 198-278: one event with a JSON payload
TakeJson ==
    /\ pc = "streaming"
    /\ Len(events) < MaxLongEvents
    /\ \E ev \in Offered(events) :
         /\ ev.kind = "json"
         /\ ~BodyRaises(ev.part)
         /\ events' = Append(events, ev)
         /\ SetLocals(LoopBody(Locals, ev.part, raw_mode, model))
    /\ UNCHANGED <<pc, messages, title_thread, config, reply_message,
                   finish>>

\* lines 206-228 and 282-289: the body raises on the JSON object after the
\* citations are stored, the exception leaves the loop
TakeUnexpectedShape ==
    /\ pc = "streaming"
    /\ Len(events) < MaxLongEvents
    /\ \E ev \in Offered(events) :
         /\ ev.kind = "json"
         /\ BodyRaises(ev.part)
         /\ events' = Append(events, ev)
         /\ citations' = StoreCitations(Locals, ev.part).citations
    /\ pc' = "returned"
    /\ finish' = "shape_error"
    /\ reply_message' = <<ReplyMessage(Locals)>>
    /\ UNCHANGED <<messages, title_thread, config, reply,
                   thinking_content, is_thinking_mode, is_thinking_complete,
                   final_chunk, printed, live>>

\* lines 199-201 with continue in place of break
TakeSentinel_Continues ==
    /\ pc = "streaming"
    /\ Len(events) < MaxLongEvents
    /\ DoneEvent \in Offered(events)
    /\ events' = Append(events, DoneEvent)
    /\ UNCHANGED <<pc, messages, title_thread, config, locals,
                   printed, live, reply_message, finish>>

\* lines 199-201: the sentinel breaks the loop
TakeSentinel ==
    /\ pc = "streaming"
    /\ Len(events) < MaxLongEvents
    /\ DoneEvent \in Offered(events)
    /\ events' = Append(events, DoneEvent)
    /\ Return("sentinel")

\* line 203 without the handler of lines 282-285 and the return of line
\* 289: the exception of json.loads reaches handle, which raises EOFError
TakeMalformed_Propagates ==
    /\ pc = "streaming"
    /\ Len(events) < MaxLongEvents
    /\ MalformedEvent \in Offered(events)
    /\ events' = Append(events, MalformedEvent)
    /\ pc' = "done"
    /\ finish' = "decode_error"
    /\ UNCHANGED <<messages, title_thread, config, locals, printed, live,
                   reply_message>>

\* line 203 and lines 282-285: json.loads raises on a payload that is not
\* JSON, the exception leaves the loop
TakeMalformed ==
    /\ pc = "streaming"
    /\ Len(events) < MaxLongEvents
    /\ MalformedEvent \in Offered(events)
    /\ events' = Append(events, MalformedEvent)
    /\ Return("decode_error")

\* line 198: client.events() is exhausted without a sentinel
StreamExhausted ==
    /\ pc = "streaming"
    /\ events' = events
    /\ Return("exhausted")

\* lines 282-285 saving the partial reply in the history
TransportError_AppendsPartial ==
    /\ pc = "streaming"
    /\ pc' = "returned"
    /\ finish' = "transport_error"
    /\ reply_message' = <<ReplyMessage(Locals)>>
    /\ messages' = Append(messages, ReplyMessage(Locals))
    /\ UNCHANGED <<title_thread, config, locals, printed, live, events>>

\* line 198 and lines 282-285: the connection fails while reading
TransportError ==
    /\ pc = "streaming"
    /\ events' = events
    /\ Return("transport_error")

\* lines 279-289 returning nothing after the interruption
Interrupt_ReturnsNone ==
    /\ pc = "streaming"
    /\ pc' = "returned"
    /\ finish' = "interrupt"
    /\ reply_message' = None
    /\ UNCHANGED <<messages, title_thread, config, locals, printed,
                   live, events>>

\* lines 279-281 with the interrupt seen only before the first event
Interrupt_OnlyAtStart ==
    /\ pc = "streaming"
    /\ events = << >>
    /\ events' = events
    /\ Return("interrupt")

\* lines 279-281: the user interrupts the stream
Interrupt ==
    /\ pc = "streaming"
    /\ events' = events
    /\ Return("interrupt")

\* handle, lines 380-384 with the title request queued before the append
HandleReply_QueuesFirst ==
    /\ pc = "returned"
    /\ pc' = "appended"
    /\ IF Len(messages) = 2 /\ auto_gen_title_background_enable
       THEN /\ gen_title_messages'
                 = Append(gen_title_messages, messages[2].content)
            /\ unfinished_tasks' = unfinished_tasks + 1
       ELSE UNCHANGED <<gen_title_messages, unfinished_tasks>>
    /\ UNCHANGED <<messages, title, title_pc, content_this_time, config,
                   locals, printed, live, reply_message, events, finish>>

\* handle, lines 380-384: a reply that is not None is appended
HandleReply ==
    /\ pc = "returned"
    /\ IF reply_message # None
       THEN /\ messages' = Append(messages, reply_message[1])
            /\ pc' = "appended"
       ELSE /\ messages' = messages
            /\ pc' = "done"
    /\ UNCHANGED <<title_thread, config, locals, printed, live,
                   reply_message, events, finish>>

\* handle, lines 386-401: the first exchange queues a title request
HandleQueueTitle ==
    /\ pc = "appended"
    /\ pc' = "done"
    /\ IF Len(messages) = 3 /\ auto_gen_title_background_enable
       THEN /\ gen_title_messages'
                 = Append(gen_title_messages, messages[2].content)
            /\ unfinished_tasks' = unfinished_tasks + 1
       ELSE UNCHANGED <<gen_title_messages, unfinished_tasks>>
    /\ UNCHANGED <<messages, title, title_pc, content_this_time, config,
                   locals, printed, live, reply_message, events, finish>>

main_thread == <<pc, messages, config, locals, printed, live, reply_message,
                 events, finish>>

\* Queue.task_done, line 462: the counter goes down by one; on a counter
\* that is already zero it raises ValueError, and the handler of lines
\* 470-477 then finds nothing to do
task_done(n) == IF n > 0 THEN n - 1 ELSE 0

\* auto_gen_title_background, line 459: get blocks until there is an item
TitleGet ==
    /\ title_pc = "waiting"
    /\ gen_title_messages # << >>
    /\ content_this_time' = <<Head(gen_title_messages)>>
    /\ gen_title_messages' = Tail(gen_title_messages)
    /\ title_pc' = "generating"
    /\ UNCHANGED <<unfinished_tasks, title, main_thread>>

\* lines 461-468 and gen_title_silent, lines 442-452: a title is generated
TitleGenerated ==
    /\ title_pc = "generating"
    /\ title' = <<"title">>
    /\ unfinished_tasks' = task_done(unfinished_tasks)
    /\ title_pc' = "waiting"
    /\ UNCHANGED <<gen_title_messages, content_this_time, main_thread>>

\* lines 461-468 and gen_title_silent, lines 438-441: the request failed
TitleFailed ==
    /\ title_pc = "generating"
    /\ title' = None
    /\ unfinished_tasks' = task_done(unfinished_tasks)
    /\ title_pc' = "waiting"
    /\ UNCHANGED <<gen_title_messages, content_this_time, main_thread>>

\* lines 470-477: gen_title_silent raised, task_done is called until
\* unfinished_tasks is zero
TitleRaised ==
    /\ title_pc = "generating"
    /\ unfinished_tasks' = 0
    /\ title_pc' = "waiting"
    /\ UNCHANGED <<gen_title_messages, title, content_this_time,
                   main_thread>>

Next ==
    \/ HandleStart
    \/ SendRequestFailed
    \/ SendRequestInterrupted
    \/ SendRequestOk
    \/ TakeJson
    \/ TakeUnexpectedShape
    \/ TakeSentinel
    \/ TakeMalformed
    \/ StreamExhausted
    \/ TransportError
    \/ Interrupt
    \/ HandleReply
    \/ HandleQueueTitle
    \/ TitleGet
    \/ TitleGenerated
    \/ TitleFailed
    \/ TitleRaised

Spec == Init /\ [][Next]_vars

-----------------------------------------------------------------------------
(* A session: the main loop takes prompts and commands one after the      *)
(* other while the title thread runs; handle is one step here and the     *)
(* reply is what process_stream_response returns for the stream           *)

\* list.pop(): the list without its last element
Front(seq) == SubSeq(seq, 1, Len(seq) - 1)

SessionStreams ==
    {<<ContentEvent(<<"A">>), DoneEvent>>,
     <<ReasoningEvent(<<"R1">>), ContentEvent(<<"B">>)>>}

\* handle, lines 386-387, on the history after the append
QueueTitle(history) ==
    IF Len(history) = 3 /\ auto_gen_title_background_enable
    THEN /\ Len(gen_title_messages) < MaxQueue
         /\ gen_title_messages'
              = Append(gen_title_messages, history[2].content)
         /\ unfinished_tasks' = unfinished_tasks + 1
    ELSE UNCHANGED <<gen_title_messages, unfinished_tasks>>

\* main, line 1371, and handle, lines 353-401: a prompt is answered
HandleReplied ==
    /\ pc = "idle"
    /\ Len(messages) + 2 <= MaxMessages
    /\ \E evs \in SessionStreams :
         LET answer == process_stream_response(evs, raw_mode, model)
             history == messages \o <<UserMessage, answer>>
         IN /\ messages' = history
            /\ reply_message' = <<answer>>
            /\ QueueTitle(history)
    /\ UNCHANGED <<pc, title, title_pc, content_this_time, config, locals,
                   printed, live, events, finish>>

\* handle, lines 355 and 372-377: send_request returns None, the user
\* message is popped
HandleNoResponse ==
    /\ pc = "idle"
    /\ messages' = Front(Append(messages, UserMessage))
    /\ reply_message' = None
    /\ UNCHANGED <<pc, title_thread, config, locals, printed, live, events,
                   finish>>

\* handle, line 355, send_request, lines 154-156, and main, lines
\* 1376-1377: the request is interrupted, main goes on with the next prompt
HandleInterrupted ==
    /\ pc = "idle"
    /\ Len(messages) + 1 <= MaxMessages
    /\ messages' = Append(messages, UserMessage)
    /\ reply_message' = None
    /\ UNCHANGED <<pc, title_thread, config, locals, printed, live, events,
                   finish>>

\* /undo, lines 1031-1043, without the test of line 1032
Undo_WithoutLengthTest ==
    /\ pc = "idle"
    /\ messages # << >>
    /\ messages' = (IF messages[Len(messages)].role = "assistant"
                    THEN Front(Front(messages)) ELSE Front(messages))
    /\ UNCHANGED <<pc, title_thread, config, locals, printed, live,
                   reply_message, events, finish>>

\* /undo, lines 1031-1043: the last question and its answer are popped
Undo ==
    /\ pc = "idle"
    /\ messages' = (IF Len(messages) > 2
                    THEN IF messages[Len(messages)].role = "assistant"
                         THEN Front(Front(messages)) ELSE Front(messages)
                    ELSE messages)
    /\ UNCHANGED <<pc, title_thread, config, locals, printed, live,
                   reply_message, events, finish>>

\* del self.messages[1]
DeleteSecond(history) ==
    <<history[1]>> \o SubSeq(history, 3, Len(history))

\* /delete first, lines 311-330: the first question and its answer go
delete_first_conversation ==
    /\ pc = "idle"
    /\ messages' = (IF Len(messages) >= 3
                    THEN LET rest == DeleteSecond(messages)
                         IN IF rest[2].role = "assistant"
                            THEN DeleteSecond(rest) ELSE rest
                    ELSE messages)
    /\ UNCHANGED <<pc, title_thread, config, locals, printed, live,
                   reply_message, events, finish>>

\* /delete all and /reset, lines 332-338: all but the first message go
delete_all_conversation ==
    /\ pc = "idle"
    /\ messages' = SubSeq(messages, 1, 1)
    /\ title' = None
    /\ UNCHANGED <<pc, gen_title_messages, unfinished_tasks, title_pc,
                   content_this_time, config, locals, printed, live,
                   reply_message, events, finish>>

\* gen_title, lines 403-411, called by /save and /title: up to the first
\* join
GenTitleStart ==
    /\ pc = "idle"
    /\ IF Len(messages) < 2
       THEN title' = None /\ pc' = "idle"
       ELSE title' = title /\ pc' = "joining"
    /\ UNCHANGED <<messages, gen_title_messages, unfinished_tasks, title_pc,
                   content_this_time, config, locals, printed, live,
                   reply_message, events, finish>>

\* gen_title, lines 411-420: the first join returns; a title that is there
\* is returned unless force is set, else a request is put
GenTitlePut ==
    /\ pc = "joining"
    /\ unfinished_tasks = 0
    /\ \E force \in BOOLEAN :
         IF title # None /\ ~force
         THEN /\ pc' = "idle"
              /\ UNCHANGED <<gen_title_messages, unfinished_tasks>>
         ELSE /\ Len(gen_title_messages) < MaxQueue
              /\ gen_title_messages'
                   = Append(gen_title_messages, messages[2].content)
              /\ unfinished_tasks' = unfinished_tasks + 1
              /\ pc' = "joining_again"
    /\ UNCHANGED <<messages, title, title_pc, content_this_time, config,
                   locals, printed, live, reply_message, events, finish>>

\* gen_title, lines 420-425: the second join returns
GenTitleReturn ==
    /\ pc = "joining_again"
    /\ unfinished_tasks = 0
    /\ pc' = "idle"
    /\ UNCHANGED <<messages, title_thread, config, locals, printed, live,
                   reply_message, events, finish>>

\* gen_title, lines 421-423: KeyboardInterrupt while a join waits
GenTitleInterrupted ==
    /\ pc \in {"joining", "joining_again"}
    /\ pc' = "idle"
    /\ UNCHANGED <<messages, title_thread, config, locals, printed, live,
                   reply_message, events, finish>>

SessionNext ==
    \/ HandleReplied
    \/ HandleNoResponse
    \/ HandleInterrupted
    \/ Undo
    \/ delete_first_conversation
    \/ delete_all_conversation
    \/ GenTitleStart
    \/ GenTitlePut
    \/ GenTitleReturn
    \/ GenTitleInterrupted
    \/ TitleGet
    \/ TitleGenerated
    \/ TitleFailed
    \/ TitleRaised

SessionSpec == Init /\ [][SessionNext]_vars

-----------------------------------------------------------------------------
(* Vocabulary of the properties *)

Count(tok, text) == Cardinality({i \in 1..Len(text) : text[i] = tok})

CountInfix(sub, text) ==
    Cardinality({i \in 0..(Len(text) - Len(sub)) :
                    SubSeq(text, i + 1, i + Len(sub)) = sub})

IsInfix(sub, text) == CountInfix(sub, text) > 0

Tokens(text) == {text[i] : i \in 1..Len(text)}

HasReasoning(ev) ==
    /\ ev.kind = "json"
    /\ HasDelta(ev.part)
    /\ ExtractReasoning(ev.part.choices[1].delta) \notin {None, << << >> >>}

HasContent(ev) ==
    /\ ev.kind = "json"
    /\ HasDelta(ev.part)
    /\ "content" \in DOMAIN ev.part.choices[1].delta
    /\ ev.part.choices[1].delta.content # << >>

ReasoningText(ev) == ExtractReasoning(ev.part.choices[1].delta)[1]

ContentText(ev) == ev.part.choices[1].delta.content

ReasoningOnly(ev) == HasReasoning(ev) /\ ~HasContent(ev)

ContentOnly(ev) ==
    HasContent(ev) /\ ~HasReasoning(ev) /\ "citations" \notin DOMAIN ev.part

Returned == pc \in {"returned", "appended", "done"} /\ reply_message # None

ReturnedContent == reply_message[1].content

RECURSIVE ConcatContentTexts(_)
ConcatContentTexts(evs) ==
    IF evs = << >> THEN << >>
    ELSE ContentText(Head(evs)) \o ConcatContentTexts(Tail(evs))

RECURSIVE ConcatRewrittenTexts(_, _)
ConcatRewrittenTexts(evs, m) ==
    IF evs = << >> THEN << >>
    ELSE (IF m \in {"sonar-reasoning-pro", "deepseek-r1"}
          THEN ReplaceThinkTags(ContentText(Head(evs)))
          ELSE ContentText(Head(evs)))
             \o ConcatRewrittenTexts(Tail(evs), m)

\* content fragments only, then the sentinel
ContentOnlyStream ==
    /\ Len(events) >= 2
    /\ events[Len(events)] = DoneEvent
    /\ \A i \in 1..(Len(events) - 1) : ContentOnly(events[i])

\* no fragment of the stream carries marker text, as it is or after the
\* rewrite of the think tags
NoMarkerInFragments ==
    \A i \in 1..Len(events) :
        /\ HasContent(events[i]) =>
             Tokens(RewriteContent(ContentText(events[i]), model))
                 \cap MarkerTokens = {}
        /\ HasReasoning(events[i]) =>
             Tokens(ReasoningText(events[i])) \cap MarkerTokens = {}

\* one or more reasoning fragments, then a content fragment, then any mix
ReasoningThenContent ==
    \E j \in 2..Len(events) :
        /\ HasContent(events[j])
        /\ \A i \in 1..(j - 1) : ReasoningOnly(events[i])

-----------------------------------------------------------------------------
(* C1 *)

\* C1 as stated: for a stream of content-only events that ends with the
\* sentinel, the returned content is the concatenation of the fragment
\* texts as they arrived, with nothing added.
C1_ContentIsPlainConcatenation ==
    (Returned /\ ContentOnlyStream)
        => ReturnedContent = ConcatContentTexts(Front(events))

\* C1 amended: for a stream of content-only events that ends with the
\* sentinel, the returned content is the concatenation, in arrival order, of
\* the fragment texts after the rewrite of the think tags that the models
\* sonar-reasoning-pro and deepseek-r1 get; no other text is added.
C1_ContentIsRewrittenConcatenation ==
    (Returned /\ ContentOnlyStream)
        => ReturnedContent = ConcatRewrittenTexts(Front(events), model)

C1_Witness ==
    /\ pc = "done"
    /\ finish = "sentinel"
    /\ events = <<ContentEvent(<<"A">>), ContentEvent(InlineThinking),
                  DoneEvent>>
    /\ model = "deepseek-r1"
    /\ messages[Len(messages)].content
         = <<"A">> \o ThinkingHeader \o <<"R1">> \o ThinkCloseReplacement
               \o <<"A">>

-----------------------------------------------------------------------------
(* C2 *)

MarkersExactlyOnce ==
    /\ Count(ThinkingHeader[1], ReturnedContent) = 1
    /\ CountInfix(ThinkingFooter \o ResponseSeparator, ReturnedContent) = 1

CloseFiredOnce ==
    /\ is_thinking_complete
    /\ ~is_thinking_mode
    /\ Count(ThinkingFooter[1], thinking_content) = 1

-----------------------------------------------------------------------------
(* C3 *)

\* a stream [R1, C1, R2] with R2's text not in R1 and C1
LateReasoningStream ==
    /\ Len(events) = 3
    /\ ReasoningOnly(events[1])
    /\ ContentOnly(events[2])
    /\ ReasoningOnly(events[3])
    /\ Tokens(ReasoningText(events[3]))
         \cap (Tokens(ReasoningText(events[1]))
                 \cup Tokens(ContentText(events[2]))) = {}

-----------------------------------------------------------------------------
(* C4 *)

\* C4: on every path that leaves the loop and from every state, the returned
\* content has all the text accumulated so far, the thinking buffer and the
\* reply buffer; a stream left while thinking does not return an empty
\* content.
C4_FinalizeKeepsAllText ==
    Returned
        => /\ IsInfix(thinking_content, ReturnedContent)
           /\ IsInfix(reply, ReturnedContent)
           /\ thinking_content # << >> => ReturnedContent # << >>

-----------------------------------------------------------------------------
(* C5 *)

PartialStream ==
    events = <<ReasoningEvent(<<"R1">>),
               ContentEvent(<<"partial content">>)>>

PartialMessage ==
    [role |-> "assistant",
     content |-> ThinkingHeader \o <<"R1">> \o ThinkingFooter
                     \o ResponseSeparator \o <<"partial content">>]

\* C5: when the user interrupts the stream after [R1, "partial content"],
\* the returned assistant message has the closed thinking block and
\* "partial content", and handle appends it to the conversation; after an
\* interruption the last message of the conversation is always the partial
\* reply.
C5_InterruptKeepsPartialReply ==
    /\ (pc \in {"returned", "appended", "done"} /\ finish = "interrupt" /\ PartialStream)
           => reply_message = <<PartialMessage>>
    /\ (pc = "done" /\ finish = "interrupt")
           => /\ Len(messages) = 3
              /\ messages[3] = [role |-> "assistant", content |-> reply]

C5_Witness ==
    /\ pc = "done"
    /\ finish = "interrupt"
    /\ PartialStream
    /\ messages = <<SystemMessage, UserMessage, PartialMessage>>

-----------------------------------------------------------------------------
(* C6 *)

\* C6: a malformed frame is skipped and the stream goes on with the next
\* frame: it never ends the loop.
C6_MalformedFrameSkipped ==
    \A i \in 1..Len(events) :
        events[i] = MalformedEvent
            => (finish # "decode_error" /\ (i = Len(events) => pc = "streaming"))

-----------------------------------------------------------------------------
(* C7 *)

IsJsonEvent(ev) == ev.kind = "json"

\* what handle gets when the same fragments are followed by the sentinel
NormalReturn ==
    <<process_stream_response(SelectSeq(events, IsJsonEvent) \o <<DoneEvent>>,
                              raw_mode, model)>>

\* C7: when a decoder or network error ends the stream, what handle gets
\* from process_stream_response differs from what it gets when the stream
\* ends normally with the same accumulated text.
C7_ErrorSurfacedToCaller ==
    (pc = "returned" /\ finish \in {"decode_error", "transport_error"})
        => reply_message # NormalReturn

-----------------------------------------------------------------------------
(* C8 *)

HelloStream ==
    events = <<ContentEvent(<<"Hello">>), ContentEvent(<<" world">>),
               DoneEvent>>

\* C8: the sentinel ends the stream at once from any state: it is the last
\* event taken, the loop is over, the returned content is the one built
\* from the events before it; [Hello, " world", DONE] returns "Hello world".
C8_SentinelEndsStream ==
    /\ \A i \in 1..Len(events) :
           events[i] = DoneEvent
               => /\ i = Len(events)
                  /\ pc \in {"returned", "appended", "done"}
                  /\ finish = "sentinel"
                  /\ ReturnedContent
                       = process_stream_response(Front(events),
                                                 raw_mode, model).content
    /\ (Returned /\ HelloStream) => ReturnedContent = <<"Hello", " world">>

C8_Witness ==
    /\ pc = "done"
    /\ HelloStream
    /\ finish = "sentinel"
    /\ messages[3] = [role |-> "assistant",
                      content |-> <<"Hello", " world">>]

-----------------------------------------------------------------------------
(* C9 *)

RECURSIVE LatestCitations(_)
\* the citations field of the last event that had one, None when there is
\* no such event
LatestCitations(evs) ==
    IF evs = << >> THEN None
    ELSE LET ev == evs[Len(evs)]
         IN IF ev.kind = "json" /\ "citations" \in DOMAIN ev.part
            THEN <<ev.part.citations>>
            ELSE LatestCitations(Front(evs))

RECURSIVE NumberedCitations(_, _)
NumberedCitations(cits, i) ==
    IF i > Len(cits) THEN << >>
    ELSE <<"[" \o ToString(i) \o "] ", cits[i], "  \n">>
             \o NumberedCitations(cits, i + 1)

\* the citation block of one list
CitationBlock(cits) ==
    IF cits = << >> THEN << >>
    ELSE <<"\n\n> Citations:  \n\n">> \o NumberedCitations(cits, 1)

\* C9: a citation list replaces the stored one and is never merged with it.
\* While the stream is read and after it, the stored citations are the list
\* of the latest event that had a citations field, and the snapshot made for
\* a content fragment in refresh mode is the reply followed by the block of
\* that latest list only.
C9_CitationsReplaced ==
    (pc \in {"streaming", "returned", "appended", "done"})
        => /\ citations = LatestCitations(events)
           /\ (~raw_mode /\ events # << >>
                   /\ HasContent(events[Len(events)]))
                  => live = <<reply \o
                               (IF LatestCitations(events) = None THEN << >>
                                ELSE CitationBlock(
                                         LatestCitations(events)[1]))>>

C9_Witness ==
    /\ pc = "streaming"
    /\ ~raw_mode
    /\ events = <<CitationsEvent(<<"u1">>),
                  CitedContentEvent(<<"u2", "u3">>, <<"A">>)>>
    /\ citations = << <<"u2", "u3">> >>
    /\ live = << <<"A", "\n\n> Citations:  \n\n", "[1] ", "u2", "  \n",
                   "[2] ", "u3", "  \n">> >>

-----------------------------------------------------------------------------
(* C10 *)

\* C10: making the snapshot twice with no fragment in between gives the
\* same string both times, and making it leaves the thinking buffer, the
\* reply buffer, the flags and the citations as they were.
C10_SnapshotIdempotent ==
    (pc = "streaming")
        => LET once == SnapshotStep(Locals)
               twice == SnapshotStep(once)
           IN /\ twice.live = once.live
              /\ \A L \in {once, twice} :
                    /\ L.reply = reply
                    /\ L.thinking_content = thinking_content
                    /\ L.is_thinking_mode = is_thinking_mode
                    /\ L.is_thinking_complete = is_thinking_complete
                    /\ L.citations = citations
                    /\ L.final_chunk = final_chunk
                    /\ L.printed = printed

C10_Witness ==
    /\ pc = "streaming"
    /\ ~raw_mode
    /\ citations = << <<"u2", "u3">> >>
    /\ is_thinking_complete
    /\ live = SnapshotStep(Locals).live
    /\ live # <<reply>>

-----------------------------------------------------------------------------
(* C11 *)

NonEmpty(x) == IF x = None \/ x[1] = << >> THEN None ELSE x

\* delta.reasoning_content
DirectPath(delta) ==
    IF "reasoning_content" \in DOMAIN delta
    THEN NonEmpty(<<delta.reasoning_content>>)
    ELSE None

\* the first thinking-typed entry of delta.thinking_blocks
BlocksPath(delta) ==
    IF "thinking_blocks" \in DOMAIN delta
    THEN NonEmpty(FirstThinkingBlock(delta.thinking_blocks))
    ELSE None

\* delta.provider_specific_fields.reasoningContent.text
ProviderPath(delta) ==
    IF /\ "provider_specific_fields" \in DOMAIN delta
       /\ "reasoningContent" \in DOMAIN delta.provider_specific_fields
       /\ "text" \in DOMAIN delta.provider_specific_fields.reasoningContent
    THEN NonEmpty(<<delta.provider_specific_fields.reasoningContent.text>>)
    ELSE None

FirstNonEmptyPath(delta) ==
    IF DirectPath(delta) # None THEN DirectPath(delta)
    ELSE IF BlocksPath(delta) # None THEN BlocksPath(delta)
    ELSE ProviderPath(delta)

\* C11: the reasoning text taken from a delta is the value of the first of
\* the three paths that yields a non-empty value; a path that is present
\* and yields nothing does not keep a later path from being used.  The
\* first event of a stream opens the thinking block with that text.
C11_FirstNonEmptyPathUsed ==
    \A i \in 1..Len(events) :
        (events[i].kind = "json" /\ HasDelta(events[i].part)
             /\ ~BodyRaises(events[i].part))
            => LET delta == events[i].part.choices[1].delta
               IN /\ NonEmpty(ExtractReasoning(delta))
                       = FirstNonEmptyPath(delta)
                  /\ (i = 1 /\ Len(events) = 1
                          /\ FirstNonEmptyPath(delta) # None
                          /\ "content" \notin DOMAIN delta)
                         => thinking_content
                              = ThinkingHeader \o FirstNonEmptyPath(delta)[1]

-----------------------------------------------------------------------------
(* C12 *)

\* a JSON object without choices, with an empty choices list or with a
\* first choice without delta
WithoutDelta(ev) == ev.kind = "json" /\ ~HasDelta(ev.part)

WithDelta(ev) == ~WithoutDelta(ev)

\* C12: an event without choices, with an empty choices list or without
\* delta in the first choice leaves the thinking buffer, the reply buffer
\* and the two flags as they are, so that the state is the one of the
\* stream without these events; it does not fail and does not end the
\* stream.
C12_MissingChoicesIsNoOp ==
    (pc \in {"streaming", "returned", "appended", "done"})
        => /\ LET F == RunLoop(InitialLocals, SelectSeq(events, WithDelta),
                               raw_mode, model)
              IN /\ reply = F.reply
                 /\ thinking_content = F.thinking_content
                 /\ is_thinking_mode = F.is_thinking_mode
                 /\ is_thinking_complete = F.is_thinking_complete
           /\ (events # << >> /\ WithoutDelta(events[Len(events)]))
                  => finish \in {"none", "exhausted", "transport_error",
                                 "interrupt"}

C12_Witness ==
    /\ pc = "streaming"
    /\ events = <<JsonEvent([id |-> "chunk"]), JsonEvent([choices |-> << >>]),
                  ContentEvent(<<"A">>)>>
    /\ reply = <<"A">>

-----------------------------------------------------------------------------
(* C13 *)

\* C13: an event that is valid JSON but lacks the expected nested fields,
\* or has null in their place, is never fatal: a JSON event does not end
\* the stream.
C13_UnexpectedShapeNeverFatal ==
    (events # << >> /\ events[Len(events)].kind = "json")
        => finish \in {"none", "exhausted", "transport_error", "interrupt"}

-----------------------------------------------------------------------------
(* C14 *)

\* the content text is <think> R </think> C
InlinesReasoning(text, k) ==
    /\ k \in 3..(Len(text) - 1)
    /\ text[1] = "<think>"
    /\ text[k] = "</think>"
    /\ {"<think>", "</think>"}
           \cap Tokens(SubSeq(text, 2, k - 1) \o SubSeq(text, k + 1, Len(text)))
         = {}

\* C14: for a model whose name has the reasoning marker, the content
\* <think>R</think>C gives the same reply as the structured stream
\* [reasoning R, content C].
C14_InlineThinkingAsStructured ==
    (pc = "streaming" /\ IsThinkTagModel(model) /\ Len(events) = 1
         /\ ContentOnly(events[1]))
        => \A k \in 1..Len(ContentText(events[1])) :
              InlinesReasoning(ContentText(events[1]), k)
                  => LET text == ContentText(events[1])
                         R == SubSeq(text, 2, k - 1)
                         C == SubSeq(text, k + 1, Len(text))
                     IN reply = process_stream_response(
                                    <<ReasoningEvent(R), ContentEvent(C)>>,
                                    raw_mode, model).content

-----------------------------------------------------------------------------
(* C15 *)

\* C15: the conversation history is not changed while the stream is read;
\* it is changed once per stream, by the append of the returned assistant
\* message after process_stream_response has returned, whether the stream
\* ended normally, by an error or by an interruption.
C15_HistoryAppendedOnceAfterReturn ==
    [][/\ pc = "streaming" => messages' = messages
       /\ pc = "returned" /\ pc' = "returned" => messages' = messages
       /\ pc = "returned" /\ pc' # "returned"
              => /\ reply_message # None
                 /\ messages' = Append(messages, reply_message[1])
       /\ pc \in {"appended", "done"} => messages' = messages]_vars

C15_Witness ==
    /\ pc = "done"
    /\ finish = "transport_error"
    /\ events = <<ReasoningEvent(<<"R1">>), ContentEvent(<<"A">>)>>
    /\ messages = <<SystemMessage, UserMessage, reply_message[1]>>

-----------------------------------------------------------------------------
(* C16 *)

TurnComplete ==
    /\ Len(messages) = 3
    /\ messages[2] = UserMessage
    /\ reply_message # None
    /\ messages[3] = reply_message[1]

\* C16: the append of the assistant message comes before the title thread
\* can take the request of that turn: whenever a request is in the queue or
\* has been taken by the thread, the assistant message of the turn is in
\* self.messages.
C16_AppendBeforeTitleRequest ==
    (gen_title_messages # << >> \/ title_pc = "generating"
         \/ unfinished_tasks > 0)
        => TurnComplete

C16_Witness ==
    /\ title_pc = "generating"
    /\ content_this_time = <<UserMessage.content>>
    /\ gen_title_messages = << >>
    /\ TurnComplete
    /\ finish = "sentinel"

-----------------------------------------------------------------------------
(* C17 *)

\* C17: the interruption can be taken at every iteration boundary of the
\* loop, after any number k of applied events; when it is taken no later
\* event is applied and the returned content is the content of the stream
\* made of the first k events.
C17_InterruptAtEveryBoundary ==
    /\ pc = "streaming" => ENABLED Interrupt
    /\ (Returned /\ finish = "interrupt")
           => /\ \A i \in 1..Len(events) : IsJsonEvent(events[i])
              /\ ReturnedContent = reply
              /\ ReturnedContent
                     = process_stream_response(events, raw_mode, model).content

C17_Witness ==
    /\ Returned
    /\ finish = "interrupt"
    /\ events = <<ContentEvent(<<"A">>), ContentEvent(<<"B">>)>>
    /\ ReturnedContent = <<"A", "B">>

-----------------------------------------------------------------------------
(* C18 *)

\* an event whose delta carries content together with other fields
CarriesBoth(ev) ==
    /\ IsJsonEvent(ev)
    /\ HasDelta(ev.part)
    /\ "content" \in DOMAIN ev.part.choices[1].delta
    /\ DOMAIN ev.part.choices[1].delta # {"content"}

\* the event with the content taken out of its delta
ReasoningPartOf(ev) ==
    LET delta == ev.part.choices[1].delta
    IN DeltaEvent([k \in DOMAIN delta \ {"content"} |-> delta[k]])

\* the event with nothing but the content of its delta
ContentPartOf(ev) == ContentEvent(ev.part.choices[1].delta.content)

RECURSIVE OneFragmentPerEvent(_)
\* the stream with every event that carries both a reasoning and a content
\* fragment replaced by two events, the reasoning one first
OneFragmentPerEvent(evs) ==
    IF evs = << >> THEN << >>
    ELSE (IF CarriesBoth(Head(evs))
          THEN <<ReasoningPartOf(Head(evs)), ContentPartOf(Head(evs))>>
          ELSE <<Head(evs)>>) \o OneFragmentPerEvent(Tail(evs))

\* the buffers and flags of the loop, without final_chunk
Assembled(L) ==
    [reply |-> L.reply, thinking_content |-> L.thinking_content,
     is_thinking_mode |-> L.is_thinking_mode,
     is_thinking_complete |-> L.is_thinking_complete,
     printed |-> L.printed]

ReasoningAndContentEvent ==
    DeltaEvent([reasoning_content |-> <<"R2">>, content |-> <<"B">>])

\* C18: the fragments are applied one after the other in arrival order, and
\* within one event the reasoning fragment before the content fragment: the
\* buffers and flags are those of the stream that delivers the same
\* fragments one per event, the reasoning of an event before its content.
C18_FragmentsInArrivalOrder ==
    Assembled(Locals)
        = Assembled(RunLoop(InitialLocals, OneFragmentPerEvent(events),
                            raw_mode, model))

C18_Witness ==
    /\ pc = "streaming"
    /\ events = <<ReasoningEvent(<<"R1">>), ReasoningAndContentEvent>>
    /\ reply = ThinkingHeader \o <<"R1", "R2">> \o ThinkingFooter
                   \o ResponseSeparator \o <<"B">>

-----------------------------------------------------------------------------
(* C19 *)

\* the event without its citations field
WithoutCitations(ev) ==
    IF IsJsonEvent(ev) /\ "citations" \in DOMAIN ev.part
    THEN JsonEvent([k \in DOMAIN ev.part \ {"citations"} |-> ev.part[k]])
    ELSE ev

StripCitations(evs) == [i \in 1..Len(evs) |-> WithoutCitations(evs[i])]

HasCitations(evs) ==
    \E i \in 1..Len(evs) :
        /\ IsJsonEvent(evs[i])
        /\ "citations" \in DOMAIN evs[i].part
        /\ evs[i].part.citations # << >>

\* C19: the citations are not part of the persisted content. The reply
\* buffer, and so the content of the returned message, is the one of the
\* same stream with every citations field removed, and it holds no
\* citation header; only the snapshot shown in refresh mode has the block.
C19_CitationsNotInContent ==
    LET plain == RunLoop(InitialLocals, StripCitations(events),
                         raw_mode, model)
    IN /\ reply = plain.reply
       /\ CitationsHeader[1] \notin Tokens(reply)
       /\ Returned
              => /\ ReturnedContent = ReplyMessage(plain).content
                 /\ CitationsHeader[1] \notin Tokens(ReturnedContent)

C19_Witness ==
    /\ Returned
    /\ finish = "sentinel"
    /\ ~raw_mode
    /\ events = <<CitedContentEvent(<<"u2", "u3">>, <<"A">>), DoneEvent>>
    /\ HasCitations(events)
    /\ live = <<<<"A">> \o CitationBlock(<<"u2", "u3">>)>>
    /\ ReturnedContent = <<"A">>

-----------------------------------------------------------------------------
(* C20 *)

Yellow(text) == [text |-> text, style |-> "yellow"]

Plain(text) == [text |-> text, style |-> "plain"]

RECURSIVE Emitted(_, _, _, _)
\* what the accepted fragments of a stream give the renderer, one entry per
\* fragment in arrival order: a reasoning fragment is accepted until the
\* thinking block is closed, a content fragment always; rewrite tells
\* whether the think tags of a content fragment are replaced first
Emitted(evs, open, closed, rewrite) ==
    IF evs = << >> THEN << >>
    ELSE LET ev == Head(evs)
         IN IF ~IsJsonEvent(ev) THEN << >>
            ELSE IF BodyRaises(ev.part) THEN << >>
            ELSE IF ~HasDelta(ev.part)
                 THEN Emitted(Tail(evs), open, closed, rewrite)
            ELSE LET delta == ev.part.choices[1].delta
                     rc == ExtractReasoning(delta)
                     r == rc # None /\ rc[1] # << >> /\ ~closed
                     c == "content" \in DOMAIN delta /\ delta.content # << >>
                     text == IF rewrite THEN ReplaceThinkTags(delta.content)
                             ELSE delta.content
                 IN (IF r THEN <<Yellow(rc[1])>> ELSE << >>)
                    \o (IF c THEN <<Plain(text)>> ELSE << >>)
                    \o Emitted(Tail(evs),
                               IF c THEN FALSE ELSE (open \/ r),
                               closed \/ (c /\ (open \/ r)),
                               rewrite)

-----------------------------------------------------------------------------
(* C21 *)

\* the assembly state: the buffers, the flags and the stored citations
AssemblyState(L) ==
    [reply |-> L.reply, thinking_content |-> L.thinking_content,
     is_thinking_mode |-> L.is_thinking_mode,
     is_thinking_complete |-> L.is_thinking_complete,
     citations |-> L.citations, final_chunk |-> L.final_chunk]

-----------------------------------------------------------------------------
(* C22 *)

ReasoningKeys ==
    {"reasoning_content", "thinking_blocks", "provider_specific_fields"}

\* the event without the reasoning fields of its delta
WithoutReasoning(ev) ==
    IF IsJsonEvent(ev) /\ HasDelta(ev.part) /\ ~BodyRaises(ev.part)
    THEN LET delta == ev.part.choices[1].delta
         IN JsonEvent([ev.part EXCEPT !.choices =
                <<[delta |-> [k \in DOMAIN delta \ ReasoningKeys
                                  |-> delta[k]]]>>])
    ELSE ev

\* events 1..i hold a non-empty content fragment
ContentApplied(evs, i) ==
    \E j \in 1..i :
        /\ IsJsonEvent(evs[j])
        /\ HasDelta(evs[j].part)
        /\ "content" \in DOMAIN evs[j].part.choices[1].delta
        /\ evs[j].part.choices[1].delta.content # << >>

\* the stream with the reasoning taken out of every event that comes after
\* the first content fragment
DropReasoningAfterContent(evs) ==
    [i \in 1..Len(evs) |->
        IF i > 1 /\ ContentApplied(evs, i - 1)
        THEN WithoutReasoning(evs[i]) ELSE evs[i]]

\* C22: the state only moves forward. Once a content fragment has been
\* applied, a later reasoning fragment has no effect on the thinking
\* buffer, the flags or the reply: they are those of the stream without
\* the reasoning that comes after the first content fragment.
C22_NoThinkingAfterContent ==
    LET forward == RunLoop(InitialLocals, DropReasoningAfterContent(events),
                           raw_mode, model)
    IN /\ thinking_content = forward.thinking_content
       /\ is_thinking_mode = forward.is_thinking_mode
       /\ is_thinking_complete = forward.is_thinking_complete
       /\ reply = forward.reply

-----------------------------------------------------------------------------
(* C23 *)

IsPrefixOf(a, b) == Len(a) <= Len(b) /\ SubSeq(b, 1, Len(a)) = a

\* C23: once the thinking block is closed the thinking buffer does not
\* change and is_thinking_complete stays true, and every step leaves the
\* reply buffer as a prefix of its new value.
C23_ClosedThinkingFrozenReplyAppendOnly ==
    [][/\ is_thinking_complete
              => /\ thinking_content' = thinking_content
                 /\ is_thinking_complete'
       /\ IsPrefixOf(reply, reply')]_vars

C23_Witness ==
    /\ pc = "streaming"
    /\ events = <<ReasoningEvent(<<"R1">>), ContentEvent(<<"A">>),
                  ReasoningEvent(<<"R2">>)>>
    /\ is_thinking_complete
    /\ thinking_content = ThinkingHeader \o <<"R1">> \o ThinkingFooter
    /\ reply = ThinkingHeader \o <<"R1">> \o ThinkingFooter
                   \o ResponseSeparator \o <<"A">>

-----------------------------------------------------------------------------
(* C24 *)

\* an event that carries a citation list and nothing else
CitationsOnly(ev) == IsJsonEvent(ev) /\ DOMAIN ev.part = {"citations"}

\* C24: a step that takes an event carrying only a citation list stores
\* that list and leaves the thinking buffer, the reply buffer and the two
\* flags as they were, in whatever state the event arrives.
C24_CitationsOnlyFrame ==
    [][(/\ pc = "streaming"
        /\ Len(events') = Len(events) + 1
        /\ CitationsOnly(events'[Len(events')]))
           => /\ citations' = <<events'[Len(events')].part.citations>>
              /\ thinking_content' = thinking_content
              /\ reply' = reply
              /\ is_thinking_mode' = is_thinking_mode
              /\ is_thinking_complete' = is_thinking_complete
              /\ pc' = "streaming"]_vars

C24_Witness ==
    /\ pc = "streaming"
    /\ events = <<ReasoningEvent(<<"R1">>), CitationsEvent(<<"u1">>)>>
    /\ citations = << <<"u1">> >>
    /\ is_thinking_mode
    /\ thinking_content = ThinkingHeader \o <<"R1">>
    /\ reply = << >>

-----------------------------------------------------------------------------
(* C25 *)

\* the locals before the last event was taken
BeforeLastEvent == RunLoop(InitialLocals, Front(events), raw_mode, model)

\* the last event changed the text to show: it gave an accepted reasoning
\* fragment or a content fragment
ChangedVisibleText ==
    /\ events # << >>
    /\ \/ BeforeLastEvent.reply # reply
       \/ BeforeLastEvent.thinking_content # thinking_content

\* the whole text accumulated so far: the open thinking block if there is
\* one, the reply (which holds the closed thinking block and the separator
\* once thinking is closed) and the citation block
FullSnapshot ==
    (IF is_thinking_mode /\ ~is_thinking_complete
     THEN thinking_content ELSE << >>)
        \o reply \o format_citations(citations)

\* C25: in refresh mode, after every fragment that changes the visible
\* text the snapshot given to the renderer is the thinking block, the
\* separator when thinking is closed, the reply so far and the citation
\* block when there are citations; nothing accumulated is missing.
C25_SnapshotIsFullText ==
    (pc = "streaming" /\ ~raw_mode /\ ChangedVisibleText)
        => live = <<FullSnapshot>>

-----------------------------------------------------------------------------
(* C26 *)

\* reasoning fragments R1..Rn, then content fragments C1..Cm, then the
\* sentinel; n is the number of reasoning fragments
ThinkingThenAnswer(n) ==
    /\ n >= 1
    /\ Len(events) >= n + 2
    /\ events[Len(events)] = DoneEvent
    /\ \A i \in 1..n : ReasoningOnly(events[i])
    /\ \A i \in (n + 1)..(Len(events) - 1) : ContentOnly(events[i])

RECURSIVE ConcatReasoningTexts(_)
ConcatReasoningTexts(evs) ==
    IF evs = << >> THEN << >>
    ELSE ReasoningText(Head(evs)) \o ConcatReasoningTexts(Tail(evs))

-----------------------------------------------------------------------------
(* C27 *)

\* the ways the loop of process_stream_response is left
StreamEndings ==
    {"sentinel", "decode_error", "shape_error", "exhausted",
     "transport_error", "interrupt"}

\* C27: however the loop is left, by the sentinel, the end of the stream,
\* a payload that is not JSON, an exception of the body, a transport error
\* or KeyboardInterrupt, process_stream_response returns the message
\* {role: assistant, content: reply} to handle and nothing is raised.
C27_AlwaysReturnsMessage ==
    /\ pc = "streaming" => finish = "none"
    /\ finish \in StreamEndings
           => /\ pc \in {"returned", "appended", "done"}
              /\ reply_message = <<[role |-> "assistant", content |-> reply]>>
              /\ pc = "done" => messages[Len(messages)] = reply_message[1]

C27_Witness ==
    /\ pc = "done"
    /\ finish = "decode_error"
    /\ events = <<ReasoningEvent(<<"R1">>), ContentEvent(<<"A">>),
                  MalformedEvent>>
    /\ reply_message
         = <<[role |-> "assistant",
              content |-> ThinkingHeader \o <<"R1">> \o ThinkingFooter
                              \o ResponseSeparator \o <<"A">>]>>

-----------------------------------------------------------------------------
(* C28 *)

\* C28: handle is all-or-nothing on the history. When the call has ended
\* without a reply appended, because send_request returned None or was
\* interrupted, self.messages is what it was before the call and the user
\* message of the call is not in it.
C28_HandleAllOrNothing ==
    (pc = "done" /\ reply_message = None)
        => /\ messages = <<SystemMessage>>
           /\ \A i \in 1..Len(messages) : messages[i] # UserMessage

-----------------------------------------------------------------------------
(* C29 *)

\* C29: after any sequence of handle (answered, without response or
\* interrupted), /undo, /delete first, /delete all and /reset, the history
\* is not empty and its first element is the system message.
C29_SystemMessageKept ==
    /\ Len(messages) >= 1
    /\ messages[1] = SystemMessage

\* the last prompt was answered and the whole exchange was removed after it
C29_Witness ==
    /\ pc = "idle"
    /\ reply_message # None
    /\ messages = <<SystemMessage>>

-----------------------------------------------------------------------------
(* C30 *)

\* the requests put and not yet processed: those waiting in the queue and
\* the one the title thread is working on
Outstanding ==
    Len(gen_title_messages) + (IF title_pc = "generating" THEN 1 ELSE 0)

\* C30: task_done is called once for each item taken from the queue, so
\* the counter that join waits for is the number of requests put and not
\* yet processed: join returns only when every request has been processed,
\* and task_done is never called more often than put.
C30_TaskDoneOncePerItem ==
    /\ unfinished_tasks = Outstanding
    /\ (pc \in {"joining", "joining_again"} /\ unfinished_tasks = 0)
           => Outstanding = 0

====
